---- MODULE Spec2Model ----
(***************************************************************************)
(* The dcblocker~ object of source/projects/dcblocker_tilde: a first-order *)
(* high-pass filter  y(n) = x(n) - x(n-1) + 0.9997 * y(n-1)  with a clear  *)
(* method and a bypass attribute.                                          *)
(*                                                                         *)
(* `sample` is a C++ double.  TLC's integers are 32 bits wide, so the      *)
(* model keeps the structure of the floating-point format at reduced size: *)
(* a decimal significand of Digits digits, a smallest quantum (gradual     *)
(* underflow onto a uniform grid), round-to-nearest-even after every       *)
(* operation, overflow to an infinity, and the IEEE algebra of infinities  *)
(* and NaN.  The quantum is 10^-Digits, so that the literal 0.9997 is a    *)
(* value of the format.  The sign of zero is not modelled.                 *)
(***************************************************************************)
EXTENDS Integers, Sequences, FiniteSets

\* ------------------------------------------------------------------------
\* The type `sample`
\* ------------------------------------------------------------------------

\* Decimal digits of the significand.
Digits == 4

\* Largest decimal exponent above the quantum.
MaxExp == 5

RECURSIVE Pow10(_)
Pow10(k) == IF k = 0 THEN 1 ELSE 10 * Pow10(k - 1)

\* The value 1.0, counted in quanta.
One == Pow10(Digits)

\* The largest finite magnitude (DBL_MAX), counted in quanta.
MaxFinite == (Pow10(Digits) - 1) * Pow10(MaxExp)

Fin(v) == [cls |-> "finite", v |-> v]
Inf(s) == [cls |-> "inf", v |-> s]
NaN == [cls |-> "nan", v |-> 0]
Zero == Fin(0)

IsFinite(a) == a.cls = "finite"
IsNaN(a) == a.cls = "nan"

Abs(n) == IF n < 0 THEN -n ELSE n
Sgn(n) == IF n < 0 THEN -1 ELSE IF n > 0 THEN 1 ELSE 0

\* The spacing of the format's values around the magnitude n/d: the quantum
\* up to Digits digits, ten times coarser for every digit more.
RECURSIVE Spacing(_, _, _)
Spacing(n, d, q) ==
    IF ((n \div d) \div q) < Pow10(Digits) THEN q ELSE Spacing(n, d, 10 * q)

\* The integer nearest to n/m, a tie going to the even one.
RoundHalfEven(n, m) ==
    LET lo == n \div m
        r == n % m
    IN  IF 2 * r < m THEN lo
        ELSE IF 2 * r > m THEN lo + 1
        ELSE IF lo % 2 = 0 THEN lo ELSE lo + 1

\* The exact value s * n / d (n >= 0, d > 0, s the sign) rounded to the
\* format: to the nearest value, then to an infinity when that lies beyond
\* the largest finite one.
Rounded(s, n, d) ==
    LET q == Spacing(n, d, 1)
        m == RoundHalfEven(n, d * q) * q
    IN  IF m > MaxFinite THEN Inf(s) ELSE Fin(s * m)

Neg(a) == IF IsNaN(a) THEN NaN ELSE [a EXCEPT !.v = -a.v]

\* a + b
Add(a, b) ==
    IF IsNaN(a) \/ IsNaN(b) THEN NaN
    ELSE IF a.cls = "inf" /\ b.cls = "inf"
         THEN (IF a.v = b.v THEN a ELSE NaN)
    ELSE IF a.cls = "inf" THEN a
    ELSE IF b.cls = "inf" THEN b
    ELSE Rounded(Sgn(a.v + b.v), Abs(a.v + b.v), 1)

\* a - b
Sub(a, b) == Add(a, Neg(b))

\* The exact product s * u * w / d rounded to the format; factors of ten
\* common to a factor and the divisor are cancelled first, which keeps the
\* integers of the computation small and the value the same.
RECURSIVE Product(_, _, _, _)
Product(s, u, w, d) ==
    IF d > 1 /\ u # 0 /\ u % 10 = 0 THEN Product(s, u \div 10, w, d \div 10)
    ELSE IF d > 1 /\ w # 0 /\ w % 10 = 0 THEN Product(s, u, w \div 10, d \div 10)
    ELSE Rounded(s, u * w, d)

\* a * b
Mul(a, b) ==
    IF IsNaN(a) \/ IsNaN(b) THEN NaN
    ELSE IF a.cls = "inf" \/ b.cls = "inf"
         THEN (IF a.v = 0 \/ b.v = 0 THEN NaN ELSE Inf(Sgn(a.v) * Sgn(b.v)))
    ELSE Product(Sgn(a.v) * Sgn(b.v), Abs(a.v), Abs(b.v), One)

\* The literal 0.9997 of calculate.
Coeff == Fin((9997 * One) \div 10000)

\* ------------------------------------------------------------------------
\* The object
\* ------------------------------------------------------------------------

\* Longest run of filtered samples followed between two clears.
MaxLen == 3

\* Longest run followed by the superposition check.
LinLen == 2

VARIABLES
    x_1,      \* input history
    y_1,      \* output history
    bypass,   \* the bypass attribute
    last,     \* the last operation: its name, argument and result (for a
              \* clear: the history and the flag it found)
    fresh,    \* no clear since construction
    start,    \* the history at construction or at the last clear, and
              \* whether that clear found a NaN in the history
    ins,      \* inputs of the filtered (non-bypassed) calls since then
    outs,     \* their outputs
    ref,      \* a second filter, fed the filtered samples only: the object,
              \* its last output, and whether the first filter has meanwhile
              \* passed a bypassed sample that differs from its history
    lin       \* three filters fed A, B and a*A + b*B (SpecLin)

vars == <<x_1, y_1, bypass, last, fresh, start, ins, outs, ref, lin>>

\* What a member without an initializer may hold when it is first read.
Indeterminate == {Zero, Fin(One \div 4), NaN}

\* The samples a host passes to calculate.
Inputs == {Zero, Fin(3), Fin(One), Fin(-2 * One),
           Fin(MaxFinite), Fin(-MaxFinite), NaN}

Self == [x_1 |-> x_1, y_1 |-> y_1, bypass |-> bypass]

\* dcblocker(atoms args) {} : no member is initialized by the constructor;
\* the bypass attribute takes its declared default.
dcblocker(hx, hy) == [x_1 |-> hx, y_1 |-> hy, bypass |-> FALSE]

\* A clear that resets the output history alone.
clear_y_only(self) == [self EXCEPT !.y_1 = Zero]

\* A clear that resets the input history alone.
clear_x_only(self) == [self EXCEPT !.x_1 = Zero]

\* METHOD (clear) { x_1 = y_1 = 0.0; }
clear(self) == [self EXCEPT !.x_1 = Zero, !.y_1 = Zero]

\* A setter that also resets the history.
set_bypass_resets(flag, self) ==
    [self EXCEPT !.bypass = flag, !.x_1 = Zero, !.y_1 = Zero]

\* ATTRIBUTE (bypass, bool, false) {} : the setter stores the value.
set_bypass(flag, self) == [self EXCEPT !.bypass = flag]

\* A calculate that keeps following the input while bypassed.
calculate_bypass_tracks(x, self) ==
    IF self.bypass
    THEN [ret |-> x, self |-> [self EXCEPT !.x_1 = x]]
    ELSE LET y == Add(Sub(x, self.x_1), Mul(self.y_1, Coeff))
         IN  [ret |-> y, self |-> [self EXCEPT !.y_1 = y, !.x_1 = x]]

\* sample calculate(sample x): the returned sample and the object after it.
\* The arithmetic is the format's own, with gradual underflow: flushing
\* denormals to zero is left to the host (the FTZ bit), not done here.
calculate(x, self) ==
    IF self.bypass
    THEN [ret |-> x, self |-> self]
    ELSE LET y == Add(Sub(x, self.x_1), Mul(self.y_1, Coeff))
         IN  [ret |-> y, self |-> [self EXCEPT !.y_1 = y, !.x_1 = x]]

Op(name, x, y, b) == [op |-> name, x |-> x, y |-> y, b |-> b]

LinIdle == [a |-> dcblocker(Zero, Zero), b |-> dcblocker(Zero, Zero),
            c |-> dcblocker(Zero, Zero), ka |-> 0, kb |-> 0,
            ya |-> Zero, yb |-> Zero, yc |-> Zero, n |-> 0,
            cleared |-> FALSE]

Init ==
    /\ \E hx \in Indeterminate, hy \in Indeterminate :
          /\ x_1 = dcblocker(hx, hy).x_1
          /\ y_1 = dcblocker(hx, hy).y_1
          /\ bypass = dcblocker(hx, hy).bypass
          /\ start = [x_1 |-> hx, y_1 |-> hy, healed |-> FALSE]
          /\ ref = [obj |-> dcblocker(hx, hy), ret |-> Zero, skipped |-> FALSE]
    /\ last = Op("new", Zero, Zero, FALSE)
    /\ fresh = TRUE
    /\ ins = <<>>
    /\ outs = <<>>
    /\ lin = LinIdle

Clear ==
    /\ x_1' = clear(Self).x_1
    /\ y_1' = clear(Self).y_1
    /\ bypass' = clear(Self).bypass
    /\ last' = Op("clear", x_1, y_1, bypass)
    /\ fresh' = FALSE
    /\ start' = [x_1 |-> clear(Self).x_1, y_1 |-> clear(Self).y_1,
                 healed |-> IsNaN(x_1) \/ IsNaN(y_1)]
    /\ ins' = <<>>
    /\ outs' = <<>>
    /\ ref' = [obj |-> clear(ref.obj), ret |-> Zero, skipped |-> FALSE]
    /\ UNCHANGED lin

SetBypass ==
    \E flag \in BOOLEAN :
        /\ x_1' = set_bypass(flag, Self).x_1
        /\ y_1' = set_bypass(flag, Self).y_1
        /\ bypass' = set_bypass(flag, Self).bypass
        /\ last' = Op("bypass_set", Zero, Zero, flag)
        /\ UNCHANGED <<fresh, start, ins, outs, ref, lin>>

GetBypass ==
    /\ last' = Op("bypass_get", Zero, Zero, bypass)
    /\ UNCHANGED <<x_1, y_1, bypass, fresh, start, ins, outs, ref, lin>>

Calculate ==
    \E x \in Inputs :
        LET r == calculate(x, Self) IN
        /\ bypass \/ Len(ins) < MaxLen
        /\ x_1' = r.self.x_1
        /\ y_1' = r.self.y_1
        /\ bypass' = r.self.bypass
        /\ last' = Op("calculate", x, r.ret, bypass)
        /\ IF bypass
           THEN /\ UNCHANGED <<ins, outs>>
                /\ ref' = [ref EXCEPT !.skipped = @ \/ x # x_1]
           ELSE /\ ins' = Append(ins, x)
                /\ outs' = Append(outs, r.ret)
                /\ ref' = [ref EXCEPT !.obj = calculate(x, ref.obj).self,
                                      !.ret = calculate(x, ref.obj).ret]
        /\ UNCHANGED <<fresh, start, lin>>

Next == Clear \/ SetBypass \/ GetBypass \/ Calculate

Spec == Init /\ [][Next]_vars

\* ------------------------------------------------------------------------
\* Three objects side by side: one fed A, one fed B, one fed a*A + b*B
\* ------------------------------------------------------------------------

\* The scalars (a, b), as whole numbers.
Scalars == {<<1, 1>>, <<2, 0>>, <<2, -1>>, <<0, 0>>}

LinInputs == {Zero, Fin(One \div 10), Fin(One)}

Scaled(k, a) == Mul(Fin(k * One), a)

Combined(ka, a, kb, b) == Add(Scaled(ka, a), Scaled(kb, b))

InitLin ==
    /\ x_1 = Zero
    /\ y_1 = Zero
    /\ bypass = FALSE
    /\ last = Op("new", Zero, Zero, FALSE)
    /\ fresh = TRUE
    /\ start = [x_1 |-> Zero, y_1 |-> Zero, healed |-> FALSE]
    /\ ins = <<>>
    /\ outs = <<>>
    /\ ref = [obj |-> dcblocker(Zero, Zero), ret |-> Zero, skipped |-> FALSE]
    /\ \E ha \in Indeterminate \X Indeterminate,
          hb \in Indeterminate \X Indeterminate,
          hc \in Indeterminate \X Indeterminate,
          k \in Scalars :
          lin = [a |-> dcblocker(ha[1], ha[2]),
                 b |-> dcblocker(hb[1], hb[2]),
                 c |-> dcblocker(hc[1], hc[2]),
                 ka |-> k[1], kb |-> k[2],
                 ya |-> Zero, yb |-> Zero, yc |-> Zero, n |-> 0,
                 cleared |-> FALSE]

\* One more sample of A, of B and of a*A + b*B, each to its own object.
LinCalculate ==
    \E xa \in LinInputs, xb \in LinInputs :
        LET ra == calculate(xa, lin.a)
            rb == calculate(xb, lin.b)
            rc == calculate(Combined(lin.ka, xa, lin.kb, xb), lin.c)
        IN  /\ lin.n < LinLen
            /\ lin' = [lin EXCEPT !.a = ra.self, !.b = rb.self, !.c = rc.self,
                                  !.ya = ra.ret, !.yb = rb.ret, !.yc = rc.ret,
                                  !.n = @ + 1]
            /\ UNCHANGED <<x_1, y_1, bypass, last, fresh, start, ins, outs, ref>>

\* The three objects cleared together, before a new run.
LinClear ==
    /\ lin' = [lin EXCEPT !.a = clear(@), !.b = clear(@), !.c = clear(@),
                          !.ya = Zero, !.yb = Zero, !.yc = Zero, !.n = 0,
                          !.cleared = TRUE]
    /\ UNCHANGED <<x_1, y_1, bypass, last, fresh, start, ins, outs, ref>>

NextLin == LinCalculate \/ LinClear

SpecLin == InitLin /\ [][NextLin]_vars

\* ------------------------------------------------------------------------
\* Properties
\* ------------------------------------------------------------------------

Last(seq) == seq[Len(seq)]

\* The history the i-th filtered call since construction or the last clear
\* found.
PrevIn(i) == IF i = 1 THEN start.x_1 ELSE ins[i - 1]
PrevOut(i) == IF i = 1 THEN start.y_1 ELSE outs[i - 1]

\* A NaN has been fed to a filtered call since construction or the last clear.
Poisoned == \E i \in 1..Len(ins) : IsNaN(ins[i])

\* Small enough that neither x - x(n-1) nor the sum with the feedback term
\* can pass the largest finite value.
Small(a) == IsFinite(a) /\ Abs(a.v) <= MaxFinite \div 4

\* The filtered inputs so far are one finite nonzero value, repeated.
ConstantRun ==
    /\ Len(ins) >= 1
    /\ IsFinite(ins[1])
    /\ ins[1].v # 0
    /\ \A i \in 1..Len(ins) : ins[i] = ins[1]

\* Every filtered call returned x - x(n-1) + 0.9997 * y(n-1) of the history it
\* found, and left x and its result as the new history.
DifferenceEquation ==
    /\ \A i \in 1..Len(ins) :
          outs[i] = Add(Sub(ins[i], PrevIn(i)), Mul(PrevOut(i), Coeff))
    /\ x_1 = (IF ins = <<>> THEN start.x_1 ELSE Last(ins))
    /\ y_1 = (IF outs = <<>> THEN start.y_1 ELSE Last(outs))

\* C1: a newly constructed filter has previousInput = 0.0, previousOutput =
\* 0.0 and bypass = false, so the first non-bypassed process(x) on a fresh
\* filter returns exactly x.
C1_FreshIsZero ==
    /\ last.op = "new" => bypass = FALSE
    /\ fresh /\ ins = <<>> => x_1 = Zero /\ y_1 = Zero
    /\ fresh /\ Len(ins) >= 1 => outs[1] = ins[1]

\* C2: a non-bypassed process(x) returns y = x - previousInput +
\* previousOutput * 0.9997 and leaves previousOutput = y, previousInput = x;
\* from a fresh filter the inputs 1.0, 0.0 give the outputs 1.0, -0.0003.
C2_DifferenceEquation ==
    /\ DifferenceEquation
    /\ (fresh /\ Len(ins) >= 2 /\ ins[1] = Fin(One) /\ ins[2] = Zero)
          => (outs[1] = Fin(One) /\ outs[2] = Fin(-((3 * One) \div 10000)))

\* C3: with bypass true, process(x) returns x and leaves previousInput,
\* previousOutput and the bypass flag as they were before the call.
C3_BypassIdentity ==
    [][(last'.op = "calculate" /\ bypass)
          => /\ last'.y = last'.x
             /\ x_1' = x_1
             /\ y_1' = y_1
             /\ bypass' = bypass]_vars

\* A bypassed call has returned its finite input, which is not the input
\* history the object still holds.
C3_Witness ==
    /\ last.op = "calculate"
    /\ last.b
    /\ IsFinite(last.x)
    /\ last.y = last.x
    /\ last.x # x_1
    /\ Len(ins) >= 1

\* C4: from any reachable state, reset() sets previousInput = 0.0 and
\* previousOutput = 0.0, so the next non-bypassed process(x) after a reset
\* returns exactly x.
C4_ResetZeroes ==
    /\ last.op = "clear" => x_1 = Zero /\ y_1 = Zero
    /\ ~fresh /\ Len(ins) >= 1 => outs[1] = ins[1]

\* A clear that found a NaN in the history has been followed by a filtered
\* call with a nonzero input.
C4_Witness ==
    /\ start.healed
    /\ Len(ins) = 1
    /\ ins[1] = Fin(One)
    /\ last.op = "calculate"
    /\ last.y = Fin(One)

\* C5: setting or reading the bypass flag never changes previousInput or
\* previousOutput; the value set alone decides whether the next process call
\* passes its input through (history untouched) or filters it (history
\* replaced by the input and the result).
C5_BypassFrame ==
    [][/\ last'.op \in {"bypass_set", "bypass_get"}
            => x_1' = x_1 /\ y_1' = y_1
       /\ last'.op = "bypass_set" => bypass' = last'.b
       /\ last'.op = "bypass_get" => last'.b = bypass /\ bypass' = bypass
       /\ (last.op = "bypass_set" /\ last'.op = "calculate")
            => IF last.b
               THEN last'.y = last'.x /\ x_1' = x_1 /\ y_1' = y_1
               ELSE /\ last'.y = Add(Sub(last'.x, x_1), Mul(y_1, Coeff))
                    /\ x_1' = last'.x
                    /\ y_1' = last'.y]_vars

\* Bypass has just been switched on over a nonzero history, which is still
\* there.
C5_Witness ==
    /\ last.op = "bypass_set"
    /\ last.b
    /\ bypass
    /\ Len(ins) >= 1
    /\ x_1 = Last(ins)
    /\ y_1 = Last(outs)
    /\ x_1 # Zero
    /\ y_1 # Zero

C7_FiniteHistory ==
    (\A i \in 1..Len(ins) : IsFinite(ins[i]))
        => IsFinite(x_1) /\ IsFinite(y_1)

\* C8: a constant nonzero value c fed repeatedly to a non-bypassed filter that
\* starts fresh or just reset gives first output c, and every later output is
\* strictly smaller in magnitude than the one before it and never changes
\* sign.
C8_StepDecay ==
    ConstantRun =>
        /\ outs[1] = ins[1]
        /\ \A i \in 2..Len(outs) :
              /\ IsFinite(outs[i])
              /\ IsFinite(outs[i - 1])
              /\ Abs(outs[i].v) < Abs(outs[i - 1].v)
              /\ Sgn(outs[i].v) * Sgn(ins[1].v) >= 0

\* C9: with A, B and a*A + b*B each processed by its own fresh non-bypassed
\* filter, the output for a*A + b*B equals a*process(A) + b*process(B) at
\* every sample.
C9_Superposition ==
    lin.n >= 1 => lin.yc = Combined(lin.ka, lin.ya, lin.kb, lin.yb)

\* C10: the outputs of the non-bypassed calls are those of a second filter
\* with the same starting history that is fed only the non-bypassed samples:
\* samples seen during bypass leave no trace.
C10_BypassTransparent ==
    /\ Len(outs) >= 1 => Last(outs) = ref.ret
    /\ ref.obj.x_1 = x_1
    /\ ref.obj.y_1 = y_1

\* A filtered call has followed a bypassed sample that differed from the
\* history, itself preceded by a filtered call.
C10_Witness ==
    /\ ref.skipped
    /\ Len(ins) >= 2
    /\ last.op = "calculate"
    /\ ~last.b
    /\ last.y # last.x

====
